---- MODULE Spec2Model ----
(***************************************************************************)
(* Model of the SMTP submission worker (workers/smtp.js):                   *)
(*   - the correlated call/response bridge to the parent thread            *)
(*     (call, the timer callback, parentPort.on('message'));               *)
(*   - the session handlers onConnect / onAuth / onData with the message   *)
(*     pipeline (processMessage) and account resolution                    *)
(*     (checkAccountData) over the session keyed ACCOUNT_CACHE.            *)
(***************************************************************************)
EXTENDS Integers, Sequences, FiniteSets, TLC

(***************************************************************************)
(* Bounds of the model                                                     *)
(***************************************************************************)
MaxCalls == 2
MaxClock == 1
MaxHeaders == 2

(***************************************************************************)
(* Program constants                                                       *)
(***************************************************************************)
MAX_SIZE == 20971520
DEFAULT_EENGINE_TIMEOUT == 10000

\* JavaScript `undefined` for string valued and for number valued fields
Undefined == "undefined"
UndefinedNum == -1

\* JavaScript truthiness of a string valued / number valued field
TruthyStr(s) == s # Undefined /\ s # ""
TruthyNum(n) == n # UndefinedNum /\ n # 0

\* x || y on number valued operands
OrElseNum(x, y) == IF TruthyNum(x) THEN x ELSE y

(***************************************************************************)
(* Input domains                                                           *)
(***************************************************************************)
\* values of config.service.commandTimeout after getDuration (0: not set)
ConfiguredTimeouts == {0, 5000}
\* message.timeout of a call (UndefinedNum: the message has no timeout)
TimeoutArgs == {UndefinedNum, 0, 300}
Payloads == {Undefined, "p1", "p2"}
\* error payloads of a response: <<error, code, statusCode>>
NoError == <<Undefined, Undefined, UndefinedNum>>
ErrorShapes ==
    {<<"E1", "ENOENT", 404>>, <<"E1", Undefined, UndefinedNum>>,
     <<"E1", "", 0>>, <<"", "ENOENT", 404>>}

NoMid == <<>>

\* values the settings store returns for a flag
SettingValues == {"true", "false"}
Truthy(v) == v = "true"

\* auth.password and the smtpServerPassword setting ("null": not set)
Passwords == {"secret", "wrong"}
PasswordSettings == {"secret", "null"}
Accounts == {"a1", "a2"}

\* outcomes of the external operations
LoadOutcomes == {"data", "nodata", "notfound", "error"}
QueueOutcomes == {"ok", "fail"}
\* getSecret() and the loadAccountData() that follows it: <<secret, load>>;
\* when getSecret throws, no load is made
ExternalOutcomes == {<<"throws", "data">>} \cup {<<"ok", l>> : l \in LoadOutcomes}

\* header lines of a submitted message: <<key, value as written>>
HeaderLines ==
    {<<"x-ee-account", "a1">>, <<"X-EE-Account", " a2 ">>, <<"x-ee-account", "">>,
     <<"Subject", "a1">>}
Bodies == {"x-ee-account: a1"}
Sizes == {MAX_SIZE, MAX_SIZE + 1}

VARIABLES
    EENGINE_TIMEOUT, \* the default timeout computed at load time
    now,             \* Date.now()
    mids,            \* the call counter
    callQueue,       \* Map: mid -> the call whose resolve/reject/timer it holds
    callMid,         \* per issued call: the mid it was registered under
    timerDelay,      \* per issued call: the delay its timer was armed with
    timer,           \* per issued call: "armed" | "fired" | "cleared"
    promise,         \* per issued call: the state of the promise call() returned
    invoked,         \* per issued call: how often resolve / reject were invoked
    posted,          \* the messages posted to the parent by the last step
    disabledCommands, \* server.options.disabledCommands
    useProxy,        \* server.options.useProxy
    session,         \* per connection: handler position, eeAuthEnabled, user
    ACCOUNT_CACHE,   \* session -> cached account handle
    authResult,      \* what the onAuth of the last step did and handed to its callback
    lastSubmit,      \* what the onData of the last step did and handed to its callback
    streamFailure,   \* what became of the submission whose stream failed in the last step
    server           \* init(): its position, the outcome of listen, the notifications emitted

rpcVars == <<EENGINE_TIMEOUT, now, mids, callQueue, callMid, timerDelay, timer,
             promise, invoked, posted>>

smtpVars == <<disabledCommands, useProxy, session, ACCOUNT_CACHE,
              authResult, lastSubmit, streamFailure, server>>

vars == <<rpcVars, smtpVars>>

(***************************************************************************)
(* The bridge                                                              *)
(***************************************************************************)
\* `${Date.now()}:${++mids}`
MakeMid(t, n) == <<t, n>>

AllMids == {MakeMid(t, n) : t \in 0..MaxClock, n \in 1..MaxCalls}

Pending == [state |-> "pending", value |-> Undefined, message |-> Undefined,
            code |-> Undefined, statusCode |-> UndefinedNum]

\* resolve(value) / reject(err) of a promise: only the first one settles it
Resolved(p, value) ==
    IF p.state = "pending"
    THEN [state |-> "resolved", value |-> value, message |-> Undefined,
          code |-> Undefined, statusCode |-> UndefinedNum]
    ELSE p

Rejected(p, message, code, statusCode) ==
    IF p.state = "pending"
    THEN [state |-> "rejected", value |-> Undefined, message |-> message,
          code |-> code, statusCode |-> statusCode]
    ELSE p

Msg(cmd, mid, response, err) ==
    [cmd |-> cmd, mid |-> mid, response |-> response,
     error |-> err[1], code |-> err[2], statusCode |-> err[3]]

\* the messages the parent sends: responses carrying a payload or an error
\* (message, code, statusCode), calls, and messages of another kind
InMessages ==
    {Msg("resp", mid, p, NoError) : mid \in AllMids \cup {NoMid}, p \in Payloads}
    \cup {Msg("resp", mid, Undefined, e) : mid \in AllMids \cup {NoMid}, e \in ErrorShapes}
    \cup {Msg(cmd, mid, Undefined, NoError) : cmd \in {"call", "other"}, mid \in AllMids \cup {NoMid}}

\* the messages handed to parentPort.postMessage
Post(cmd, mid, timeout, response, event) ==
    [cmd |-> cmd, mid |-> mid, timeout |-> timeout, response |-> response, event |-> event]

\* { cmd: 'call', mid, message }, with the timeout field of message
PostCall(mid, timeoutArg) == Post("call", mid, timeoutArg, Undefined, Undefined)

\* { cmd: 'resp', mid, response }
PostResp(mid, response) == Post("resp", mid, UndefinedNum, response, Undefined)

\* the delay handed to setTimeout
TimerDelay(timeoutArg, dflt) == OrElseNum(timeoutArg, dflt)

\* a lookup that ignores the mid of the response
QueueGetAny(q, mid) == q[CHOOSE m \in DOMAIN q : TRUE]

\* callQueue.get(message.mid)
QueueGet(q, mid) == q[mid]

\* callQueue.set(mid, entry)
QueueSet(q, mid, c) == [m \in (DOMAIN q) \cup {mid} |-> IF m = mid THEN c ELSE q[m]]

\* callQueue.delete(mid)
QueueDelete(q, mid) == [m \in (DOMAIN q) \ {mid} |-> q[m]]

\* the passing of time
Tick ==
    /\ now < MaxClock
    /\ now' = now + 1
    /\ posted' = <<>>
    /\ UNCHANGED <<EENGINE_TIMEOUT, mids, callQueue, callMid, timerDelay, timer,
                   promise, invoked>>
    /\ UNCHANGED smtpVars

\* call(message, transferList)
Call(timeoutArg) ==
    /\ mids < MaxCalls
    /\ LET c == mids + 1
           mid == MakeMid(now, c)
       IN /\ mids' = c
          /\ callMid' = callMid @@ (c :> mid)
          /\ timerDelay' = timerDelay @@ (c :> TimerDelay(timeoutArg, EENGINE_TIMEOUT))
          /\ timer' = timer @@ (c :> "armed")
          /\ promise' = promise @@ (c :> Pending)
          /\ invoked' = invoked @@ (c :> [resolve |-> 0, reject |-> 0])
          /\ callQueue' = QueueSet(callQueue, mid, c)
          /\ posted' = <<PostCall(mid, timeoutArg)>>
    /\ UNCHANGED <<EENGINE_TIMEOUT, now>>
    /\ UNCHANGED smtpVars

\* a timeout error with another status
TimeoutErrorOtherStatus ==
    [message |-> "Timeout waiting for command response [T4]", code |-> "Timeout",
     statusCode |-> 500]

\* the error of the setTimeout callback
TimeoutError ==
    [message |-> "Timeout waiting for command response [T4]", code |-> "Timeout",
     statusCode |-> 504]

\* the pending-call table after the setTimeout callback of call c has run:
\* the callback does not touch callQueue
TimerEntries(q, c) == q

TimerFire(c) ==
    /\ c \in DOMAIN timer
    /\ timer[c] = "armed"
    /\ timer' = [timer EXCEPT ![c] = "fired"]
    /\ promise' = [promise EXCEPT ![c] = Rejected(@, TimeoutError.message, TimeoutError.code,
                                                  TimeoutError.statusCode)]
    /\ invoked' = [invoked EXCEPT ![c].reject = @ + 1]
    /\ callQueue' = TimerEntries(callQueue, c)
    /\ posted' = <<>>
    /\ UNCHANGED <<EENGINE_TIMEOUT, now, mids, callMid, timerDelay>>
    /\ UNCHANGED smtpVars

\* the first branch of parentPort.on('message'): a response to a pending call
IsResp(message) ==
    /\ message.cmd = "resp"
    /\ message.mid # NoMid
    /\ message.mid \in DOMAIN callQueue

\* the second branch: a call from the parent
IsCall(message) ==
    /\ ~IsResp(message)
    /\ message.cmd = "call"
    /\ message.mid # NoMid

HandleResp(message) ==
    LET c == QueueGet(callQueue, message.mid)
    IN /\ timer' = [timer EXCEPT ![c] = IF @ = "armed" THEN "cleared" ELSE @]
       /\ callQueue' = QueueDelete(callQueue, message.mid)
       /\ IF TruthyStr(message.error)
          THEN /\ promise' = [promise EXCEPT ![c] =
                                Rejected(@, message.error,
                                         IF TruthyStr(message.code) THEN message.code ELSE Undefined,
                                         IF TruthyNum(message.statusCode) THEN message.statusCode
                                                                          ELSE UndefinedNum)]
               /\ invoked' = [invoked EXCEPT ![c].reject = @ + 1]
          ELSE /\ promise' = [promise EXCEPT ![c] = Resolved(@, message.response)]
               /\ invoked' = [invoked EXCEPT ![c].resolve = @ + 1]
       /\ posted' = <<>>

\* onCommand(command): logs, returns undefined
onCommand(command) == Undefined

\* a handler that leaves the calls of the parent unanswered
HandleCallSilent(message) ==
    /\ posted' = <<>>
    /\ UNCHANGED <<callQueue, timer, promise, invoked>>

HandleCall(message) ==
    /\ posted' = <<PostResp(message.mid, onCommand(message))>>
    /\ UNCHANGED <<callQueue, timer, promise, invoked>>

OnMessage(message) ==
    /\ IF IsResp(message) THEN HandleResp(message)
       ELSE IF IsCall(message) THEN HandleCall(message)
       ELSE /\ posted' = <<>>
            /\ UNCHANGED <<callQueue, timer, promise, invoked>>
    /\ UNCHANGED <<EENGINE_TIMEOUT, now, mids, callMid, timerDelay>>
    /\ UNCHANGED smtpVars

(***************************************************************************)
(* The message pipeline                                                    *)
(***************************************************************************)
Messages ==
    [headers : UNION {[1..n -> HeaderLines] : n \in 0..MaxHeaders},
     body : Bodies, size : Sizes]

\* the messages with at most one header line
ShortMessages ==
    [headers : {<<>>} \cup {<<line>> : line \in HeaderLines}, body : Bodies, size : Sizes]

\* the key of a header line as the header list keeps it: lower case
NormalizeKey(k) == IF k = "X-EE-Account" THEN "x-ee-account"
                   ELSE IF k = "Subject" THEN "subject" ELSE k

\* the value of a header line as getFirst returns it: without the white space
\* around it
TrimValue(v) == IF v = " a2 " THEN "a2" ELSE v

\* headers.getFirst(key): the value of the first line with that key, or ''
RECURSIVE GetFirstFrom(_, _, _)
GetFirstFrom(lines, key, i) ==
    IF i > Len(lines) THEN ""
    ELSE IF NormalizeKey(lines[i][1]) = key THEN TrimValue(lines[i][2])
    ELSE GetFirstFrom(lines, key, i + 1)

HeadersGetFirst(lines, key) == GetFirstFrom(lines, key, 1)

\* headers.remove(key): walks the lines from the last to the first and splices
\* out every line with that key
RECURSIVE RemoveFrom(_, _, _)
RemoveFrom(lines, key, i) ==
    IF i < 1 THEN lines
    ELSE IF NormalizeKey(lines[i][1]) = key
         THEN RemoveFrom(SubSeq(lines, 1, i - 1) \o SubSeq(lines, i + 1, Len(lines)), key, i - 1)
         ELSE RemoveFrom(lines, key, i - 1)

HeadersRemove(lines, key) == RemoveFrom(lines, key, Len(lines))

\* a rewriter callback that reads the directive and leaves the header in place
RewriteHeadersKeep(lines) ==
    [headers |-> lines,
     requestedAccount |-> LET requestedAccount == HeadersGetFirst(lines, "x-ee-account")
                          IN IF TruthyStr(requestedAccount) THEN requestedAccount
                                                            ELSE Undefined]

\* the HeadersRewriter callback of processMessage: the header block it leaves
\* and the meta.requestedAccount it sets
RewriteHeaders(lines) ==
    [headers |-> HeadersRemove(lines, "x-ee-account"),
     requestedAccount |-> LET requestedAccount == HeadersGetFirst(lines, "x-ee-account")
                          IN IF TruthyStr(requestedAccount) THEN requestedAccount
                                                            ELSE Undefined]

\* the raw stream the protocol engine hands to onData: the engine sets its
\* sizeExceeded once more than the allowed size was received
RawStream(msg) ==
    [headers |-> msg.headers, body |-> msg.body, sizeExceeded |-> msg.size > MAX_SIZE]

\* processMessage(stream, session, meta): the splitter, the headers rewriter
\* and the joiner piped together.  What it returns is the joiner, a new stream
\* object: the chunks read from it are the rewritten header block and the
\* body, and it has no sizeExceeded property of its own.
processMessage(rawStream) ==
    LET rewritten == RewriteHeaders(rawStream.headers)
    IN [headers |-> rewritten.headers,
        body |-> rawStream.body,
        requestedAccount |-> rewritten.requestedAccount,
        sizeExceeded |-> FALSE]

(***************************************************************************)
(* Account resolution                                                      *)
(***************************************************************************)
\* the connections of the server
Sessions == {1, 2}

NoHandle == [account |-> Undefined, oid |-> 0, loaded |-> "none"]

Min(S) == CHOOSE x \in S : \A y \in S : x <= y

\* one account object constructed once and handed to every session: the
\* first identity, whether or not the cache still references it
SharedOid == Min(1..(Cardinality(Sessions) + 1))

\* the identity of a newly constructed object: one that no object still
\* referenced by the cache has
FreshOid ==
    Min({o \in 1..(Cardinality(Sessions) + 1) :
            \A s \in Sessions : ACCOUNT_CACHE[s].oid # o})

\* new Account({ account, ... }) followed by its loadAccountData()
NewAccount(account, oid, loadOutcome) ==
    [account |-> account, oid |-> oid, loaded |-> loadOutcome]

\* a check that takes no session to require authentication
AuthRequiredNever(s) == FALSE

\* session.eeAuthEnabled
AuthRequired(s) == session[s].eeAuthEnabled = "true"

\* a 'sender account not provided' error with another response code
SenderNotProvidedOtherCode ==
    [message |-> "Sender account ID not provided, can not send mail", responseCode |-> 550]

\* the error thrown when there is neither a directive nor a cached handle
SenderNotProvided ==
    [message |-> "Sender account ID not provided, can not send mail", responseCode |-> 451]

\* the error thrown when no account object is left
FailedToLoad == [message |-> "Failed to load account", responseCode |-> 451]

\* a resolution that never caches the loaded account
CacheAfterLoadNever(s, obj, loadOutcome) == ACCOUNT_CACHE[s]

\* the cache entry of the session after loading the requested account:
\* set only when the load returned data
CacheAfterLoad(s, obj, loadOutcome) ==
    IF loadOutcome = "data" THEN obj ELSE ACCOUNT_CACHE[s]

\* the value of accountObject after the try/catch around the load: the
\* constructed object, whether the load returned data, returned nothing or threw
AfterLoad(obj, loadOutcome) == obj

\* checkAccountData(session, messageMeta): the handle it returns or the error
\* it throws, the outcome of the load it made and the cache entry it leaves
checkAccountData(s, requestedAccount, secretOutcome, loadOutcome) ==
    LET direct == ~AuthRequired(s) /\ TruthyStr(requestedAccount)
        obj == NewAccount(requestedAccount, FreshOid, loadOutcome)
        accountObject == IF direct THEN AfterLoad(obj, loadOutcome) ELSE ACCOUNT_CACHE[s]
        loaded == IF direct /\ secretOutcome = "ok" THEN loadOutcome ELSE "none"
        cached == IF direct /\ secretOutcome = "ok"
                  THEN CacheAfterLoad(s, obj, loadOutcome) ELSE ACCOUNT_CACHE[s]
        throw(err) == [handle |-> NoHandle, message |-> err.message,
                       responseCode |-> err.responseCode, cached |-> cached,
                       loaded |-> loaded]
    IN IF direct /\ secretOutcome = "throws"
       THEN throw([message |-> "getSecret failed", responseCode |-> UndefinedNum])
       ELSE IF ~AuthRequired(s) /\ ~TruthyStr(requestedAccount) /\ accountObject = NoHandle
       THEN throw(SenderNotProvided)
       ELSE IF accountObject = NoHandle
       THEN throw(FailedToLoad)
       ELSE [handle |-> accountObject, message |-> Undefined,
             responseCode |-> UndefinedNum, cached |-> cached, loaded |-> loaded]

(***************************************************************************)
(* The session handlers                                                    *)
(***************************************************************************)
Includes(list, x) == \E i \in DOMAIN list : list[i] = x

\* Array.from(new Set(list)) with x deleted from the set: the first occurrence
\* of every other element, in order
RECURSIVE WithoutDup(_, _)
WithoutDup(list, x) ==
    IF list = <<>> THEN <<>>
    ELSE LET rest == WithoutDup(SubSeq(list, 1, Len(list) - 1), x)
             last == list[Len(list)]
         IN IF last = x \/ Includes(rest, last) THEN rest ELSE Append(rest, last)

\* a reconciliation that disables 'AUTH' without looking for it in the list
ReconcilePushAlways(list, authEnabled) ==
    IF Truthy(authEnabled) /\ Includes(list, "AUTH") THEN WithoutDup(list, "AUTH")
    ELSE IF ~Truthy(authEnabled) THEN Append(list, "AUTH")
    ELSE list

\* the reconciliation of the disabled commands in onConnect
Reconcile(list, authEnabled) ==
    IF Truthy(authEnabled) /\ Includes(list, "AUTH") THEN WithoutDup(list, "AUTH")
    ELSE IF ~Truthy(authEnabled) /\ ~Includes(list, "AUTH") THEN Append(list, "AUTH")
    ELSE list

NoAuthResult == [sid |-> 0, ok |-> FALSE, user |-> Undefined, message |-> Undefined,
                 statusCode |-> UndefinedNum, matched |-> FALSE, loaded |-> "none"]

NoSubmit ==
    [sid |-> 0, msg |-> [headers |-> <<>>, body |-> "x-ee-account: a1", size |-> 0],
     requestedAccount |-> Undefined, checked |-> FALSE, loaded |-> "none",
     via |-> NoHandle,
     raw |-> [headers |-> <<>>, body |-> "x-ee-account: a1"], accepted |-> FALSE,
     message |-> Undefined, responseCode |-> UndefinedNum]

NoStreamFailure == [sid |-> 0, stage |-> "none", callbacks |-> 0, uncaught |-> FALSE]

\* init() after it returned the server: listen succeeded and 'listening' was
\* notified
Listening ==
    [pc |-> "listening", listen |-> "ok", notifications |-> <<"listening">>,
     logged |-> FALSE, exitCode |-> UndefinedNum]

\* a new connection on the listening server: onConnect asks the settings store
\* for smtpServerAuthEnabled
OnConnect(s) ==
    /\ server.pc = "listening"
    /\ session[s].pc = "new"
    /\ session' = [session EXCEPT ![s].pc = "getAuth"]
    /\ posted' = <<>>
    /\ UNCHANGED <<disabledCommands, useProxy, ACCOUNT_CACHE>>
    /\ authResult' = NoAuthResult
    /\ lastSubmit' = NoSubmit
    /\ streamFailure' = NoStreamFailure
    /\ UNCHANGED server
    /\ UNCHANGED <<EENGINE_TIMEOUT, now, mids, callQueue, callMid, timerDelay, timer,
                   promise, invoked>>

\* onConnect, first then(): reconcile the disabled commands, stamp the session,
\* ask for smtpServerProxy
OnConnectAuthEnabled(s, authEnabled) ==
    /\ session[s].pc = "getAuth"
    /\ disabledCommands' = Reconcile(disabledCommands, authEnabled)
    /\ session' = [session EXCEPT ![s].pc = "getProxy",
                                  ![s].eeAuthEnabled = IF Truthy(authEnabled) THEN "true"
                                                                              ELSE "false"]
    /\ posted' = <<>>
    /\ UNCHANGED <<useProxy, ACCOUNT_CACHE>>
    /\ authResult' = NoAuthResult
    /\ lastSubmit' = NoSubmit
    /\ streamFailure' = NoStreamFailure
    /\ UNCHANGED server
    /\ UNCHANGED <<EENGINE_TIMEOUT, now, mids, callQueue, callMid, timerDelay, timer,
                   promise, invoked>>

\* onConnect, second and third then(): set useProxy, callback()
OnConnectProxy(s, smtpServerProxy) ==
    /\ session[s].pc = "getProxy"
    /\ useProxy' = smtpServerProxy
    /\ session' = [session EXCEPT ![s].pc = "ready"]
    /\ posted' = <<>>
    /\ UNCHANGED <<disabledCommands, ACCOUNT_CACHE>>
    /\ authResult' = NoAuthResult
    /\ lastSubmit' = NoSubmit
    /\ streamFailure' = NoStreamFailure
    /\ UNCHANGED server
    /\ UNCHANGED <<EENGINE_TIMEOUT, now, mids, callQueue, callMid, timerDelay, timer,
                   promise, invoked>>

\* onConnect, catch(): a settings.get failed, callback(err) ends the connection
OnConnectFail(s) ==
    /\ session[s].pc \in {"getAuth", "getProxy"}
    /\ session' = [session EXCEPT ![s].pc = "closed"]
    /\ posted' = <<>>
    /\ UNCHANGED <<disabledCommands, useProxy, ACCOUNT_CACHE>>
    /\ authResult' = NoAuthResult
    /\ lastSubmit' = NoSubmit
    /\ streamFailure' = NoStreamFailure
    /\ UNCHANGED server
    /\ UNCHANGED <<EENGINE_TIMEOUT, now, mids, callQueue, callMid, timerDelay, timer,
                   promise, invoked>>

\* a load failure that is tagged whatever the error was
LoadFailureStatusAlways(loadOutcome) == 454

\* the statusCode of the error thrown for a load that threw: 454 unless the
\* error is a not-found (err.output.statusCode 404)
LoadFailureStatus(loadOutcome) ==
    IF loadOutcome = "notfound" THEN UndefinedNum ELSE 454

\* a comparison that accepts every password
PasswordMatchesAny(password, smtpPassword) == TRUE

\* auth.password === smtpPassword
PasswordMatches(password, smtpPassword) == password = smtpPassword

\* onAuth(auth, session): the handle it caches and what it returns or throws,
\* whether it was given the configured password and the outcome of the load
\* it made
onAuth(s, username, password, smtpPassword, secretOutcome, loadOutcome) ==
    LET obj == NewAccount(username, FreshOid, loadOutcome)
        matched == password = smtpPassword
        reached == AuthRequired(s) /\ PasswordMatches(password, smtpPassword)
        loaded == IF reached /\ secretOutcome = "ok" THEN loadOutcome ELSE "none"
        fail(message, statusCode) ==
            [ok |-> FALSE, user |-> Undefined, message |-> message,
             statusCode |-> statusCode, cached |-> ACCOUNT_CACHE[s],
             matched |-> matched, loaded |-> loaded]
    IN IF ~AuthRequired(s) THEN fail("Authentication not enabled", UndefinedNum)
       ELSE IF ~PasswordMatches(password, smtpPassword)
       THEN fail("Failed to authenticate user", UndefinedNum)
       ELSE IF secretOutcome = "throws" THEN fail("getSecret failed", UndefinedNum)
       ELSE IF loadOutcome \in {"notfound", "error"}
       THEN fail("Failed to authenticate user", LoadFailureStatus(loadOutcome))
       ELSE IF loadOutcome = "nodata"
       THEN fail("Failed to authenticate user", UndefinedNum)
       ELSE [ok |-> TRUE, user |-> username, message |-> Undefined,
             statusCode |-> UndefinedNum, cached |-> obj,
             matched |-> matched, loaded |-> loaded]

\* the AUTH command of a connection: the protocol engine runs it when AUTH is
\* not disabled and the session has no user yet; serverOptions.onAuth
OnAuth(s, username, password, smtpPassword, secretOutcome, loadOutcome) ==
    /\ session[s].pc = "ready"
    /\ ~Includes(disabledCommands, "AUTH")
    /\ session[s].user = Undefined
    /\ LET res == onAuth(s, username, password, smtpPassword, secretOutcome, loadOutcome)
       IN /\ ACCOUNT_CACHE' = [ACCOUNT_CACHE EXCEPT ![s] = res.cached]
          /\ session' = [session EXCEPT ![s].user = res.user]
          /\ authResult' = [sid |-> s, ok |-> res.ok, user |-> res.user,
                            message |-> res.message, statusCode |-> res.statusCode,
                            matched |-> res.matched, loaded |-> res.loaded]
    /\ posted' = <<>>
    /\ lastSubmit' = NoSubmit
    /\ UNCHANGED <<disabledCommands, useProxy>>
    /\ streamFailure' = NoStreamFailure
    /\ UNCHANGED server
    /\ UNCHANGED <<EENGINE_TIMEOUT, now, mids, callQueue, callMid, timerDelay, timer,
                   promise, invoked>>

\* metrics(logger, 'events', 'inc', { event })
PostMetrics(event) == Post("metrics", NoMid, UndefinedNum, Undefined, event)

\* serverOptions.onData(rawStream, session, callback) up to its callback
OnData(s, msg, secretOutcome, loadOutcome, queueOutcome) ==
    /\ session[s].pc = "ready"
    /\ LET stream == processMessage(RawStream(msg))
           raw == [headers |-> stream.headers, body |-> stream.body]
           base == [sid |-> s, msg |-> msg, requestedAccount |-> stream.requestedAccount,
                    checked |-> FALSE, loaded |-> "none", via |-> NoHandle,
                    raw |-> raw, accepted |-> FALSE,
                    message |-> Undefined, responseCode |-> UndefinedNum]
           res == checkAccountData(s, stream.requestedAccount, secretOutcome, loadOutcome)
       IN IF stream.sizeExceeded
          THEN /\ lastSubmit' = [base EXCEPT
                                   !.message = "Message exceeds fixed maximum message size",
                                   !.responseCode = 552]
               /\ posted' = <<>>
               /\ UNCHANGED ACCOUNT_CACHE
          ELSE /\ ACCOUNT_CACHE' = [ACCOUNT_CACHE EXCEPT ![s] = res.cached]
               /\ IF res.handle = NoHandle
                  THEN /\ lastSubmit' = [base EXCEPT !.checked = TRUE,
                                                     !.loaded = res.loaded,
                                                     !.message = res.message,
                                                     !.responseCode = res.responseCode]
                       /\ posted' = <<>>
                  ELSE IF queueOutcome = "ok"
                  THEN /\ lastSubmit' = [base EXCEPT !.checked = TRUE,
                                                     !.loaded = res.loaded,
                                                     !.via = res.handle,
                                                     !.accepted = TRUE,
                                                     !.message = "Message queued for delivery"]
                       /\ posted' = <<PostMetrics("smtpSubmitQueued")>>
                  ELSE /\ lastSubmit' = [base EXCEPT !.checked = TRUE,
                                                     !.loaded = res.loaded,
                                                     !.via = res.handle,
                                                     !.message = "queueMessage failed"]
                       /\ posted' = <<PostMetrics("smtpSubmitFail")>>
    /\ authResult' = NoAuthResult
    /\ UNCHANGED <<disabledCommands, useProxy, session>>
    /\ streamFailure' = NoStreamFailure
    /\ UNCHANGED server
    /\ UNCHANGED <<EENGINE_TIMEOUT, now, mids, callQueue, callMid, timerDelay, timer,
                   promise, invoked>>

\* where a stream of the pipeline can emit 'error': the inbound stream, the
\* Splitter, the HeadersRewriter
StreamStages == {"stream", "splitter", "headersRewriter"}

\* the 'error' listeners onData registers on the stream processMessage returned
JoinerErrorListeners == 0

\* serverOptions.onData when a stream of the pipeline emits 'error' before the
\* end of the message: processMessage re-emits the error of the inbound stream
\* and of the HeadersRewriter on the Joiner; neither the Joiner nor the Splitter
\* has a listener of the handler, so the error is thrown out of emit() as an
\* uncaught exception, the 'end' handler never runs, and the worker terminates
\* with all its connections
OnDataError(s, stage) ==
    /\ session[s].pc = "ready"
    /\ streamFailure' = [sid |-> s, stage |-> stage,
                         callbacks |-> IF JoinerErrorListeners > 0 THEN 1 ELSE 0,
                         uncaught |-> JoinerErrorListeners = 0]
    /\ IF JoinerErrorListeners = 0
       THEN /\ session' = [t \in Sessions |-> [session[t] EXCEPT !.pc = "closed"]]
            /\ server' = [server EXCEPT !.pc = "crashed"]
       ELSE UNCHANGED <<session, server>>
    /\ posted' = <<>>
    /\ authResult' = NoAuthResult
    /\ lastSubmit' = NoSubmit
    /\ UNCHANGED <<disabledCommands, useProxy, ACCOUNT_CACHE>>
    /\ UNCHANGED <<EENGINE_TIMEOUT, now, mids, callQueue, callMid, timerDelay, timer,
                   promise, invoked>>

(***************************************************************************)
(* init(): the start of the server                                         *)
(***************************************************************************)
\* the worker before init() has run
Booting ==
    [pc |-> "start", listen |-> "pending", notifications |-> <<>>,
     logged |-> FALSE, exitCode |-> UndefinedNum]

\* emitChangeEvent(logger, null, 'smtpServerState', state): one state-change
\* notification
emitChangeEvent(notifications, state) == Append(notifications, state)

\* what each step of init() leaves alone
InitUnchanged ==
    /\ posted' = <<>>
    /\ authResult' = NoAuthResult
    /\ lastSubmit' = NoSubmit
    /\ streamFailure' = NoStreamFailure
    /\ UNCHANGED <<session, ACCOUNT_CACHE>>
    /\ UNCHANGED <<EENGINE_TIMEOUT, now, mids, callQueue, callMid, timerDelay, timer,
                   promise, invoked>>

\* serverOptions, with useProxy read from the settings store, and new SMTPServer
InitServer(smtpServerProxy) ==
    /\ server.pc = "start"
    /\ disabledCommands' = <<"STARTTLS">>
    /\ useProxy' = smtpServerProxy
    /\ server' = [server EXCEPT !.pc = "address"]
    /\ InitUnchanged

\* smtpServerPort and smtpServerHost read from the settings store
InitAddress ==
    /\ server.pc = "address"
    /\ server' = [server EXCEPT !.pc = "listen"]
    /\ UNCHANGED <<disabledCommands, useProxy>>
    /\ InitUnchanged

\* a settings.get of init() outside its try block throws: init() rejects
InitSettingsFail ==
    /\ server.pc \in {"start", "address"}
    /\ server' = [server EXCEPT !.pc = "rejected"]
    /\ UNCHANGED <<disabledCommands, useProxy>>
    /\ InitUnchanged

\* a try block that goes on as if listen had succeeded
AfterListenSwallow(outcome) == "bound"

\* where init() goes on after the promise around server.listen settled:
\* in the try block when it resolved, in the catch block when it rejected
AfterListen(outcome) == IF outcome = "ok" THEN "bound" ELSE "catch"

\* server.listen(port, host): its callback resolves, a first 'error' rejects
Listen(outcome) ==
    /\ server.pc = "listen"
    /\ server' = [server EXCEPT !.pc = AfterListen(outcome), !.listen = outcome]
    /\ UNCHANGED <<disabledCommands, useProxy>>
    /\ InitUnchanged

\* the try block after listen: notify 'listening', return the server
EmitListening ==
    /\ server.pc = "bound"
    /\ server' = [server EXCEPT !.pc = "listening",
                                !.notifications = emitChangeEvent(@, "listening")]
    /\ UNCHANGED <<disabledCommands, useProxy>>
    /\ InitUnchanged

\* the catch block: notify 'failed', throw err
EmitFailed ==
    /\ server.pc = "catch"
    /\ server' = [server EXCEPT !.pc = "rejected",
                                !.notifications = emitChangeEvent(@, "failed")]
    /\ UNCHANGED <<disabledCommands, useProxy>>
    /\ InitUnchanged

\* init().catch(): setImmediate(() => process.exit(3))
Exit ==
    /\ server.pc = "rejected"
    /\ server' = [server EXCEPT !.pc = "exited", !.exitCode = 3]
    /\ UNCHANGED <<disabledCommands, useProxy>>
    /\ InitUnchanged

\* an 'error' of the listening server: logged by the listener the listen
\* callback registered
ServerError ==
    /\ server.pc = "listening"
    /\ server' = [server EXCEPT !.logged = TRUE]
    /\ UNCHANGED <<disabledCommands, useProxy>>
    /\ InitUnchanged

SmtpInit ==
    /\ disabledCommands = <<"STARTTLS">>
    /\ useProxy \in SettingValues
    /\ session = [s \in Sessions |-> [pc |-> "new", eeAuthEnabled |-> "unset",
                                      user |-> Undefined]]
    /\ ACCOUNT_CACHE = [s \in Sessions |-> NoHandle]
    /\ authResult = NoAuthResult
    /\ lastSubmit = NoSubmit
    /\ streamFailure = NoStreamFailure
    /\ server = Listening

RpcInit ==
    /\ EENGINE_TIMEOUT \in {OrElseNum(t, DEFAULT_EENGINE_TIMEOUT) : t \in ConfiguredTimeouts}
    /\ now = 0
    /\ mids = 0
    /\ callQueue = <<>>
    /\ callMid = <<>>
    /\ timerDelay = <<>>
    /\ timer = <<>>
    /\ promise = <<>>
    /\ invoked = <<>>
    /\ posted = <<>>

\* the bridge, before any connection is accepted
Init == RpcInit /\ SmtpInit /\ useProxy = "false"

Next ==
    \/ Tick
    \/ \E t \in TimeoutArgs : Call(t)
    \/ \E c \in 1..MaxCalls : TimerFire(c)
    \/ \E message \in InMessages : OnMessage(message)

Spec == Init /\ [][Next]_vars

\* the inputs of a login: <<username, password, smtpServerPassword, external
\* outcomes>>; the external operations are reached only when the passwords match
AuthInputs ==
    {in \in Accounts \X Passwords \X PasswordSettings \X ExternalOutcomes :
        in[2] = in[3] \/ in[4] = <<"ok", "data">>}

\* the inputs of a submission: <<message, external outcomes, queueing
\* outcome>>; an account is loaded only for a message that names one
SubmitInputs ==
    {in \in ShortMessages \X ExternalOutcomes \X QueueOutcomes :
        \/ processMessage(RawStream(in[1])).requestedAccount # Undefined
        \/ in[2] = <<"ok", "data">>}

\* the connections whose setup has completed
Ready == {s \in Sessions : session[s].pc = "ready"}

\* the connections of the server: setup, login and submission
NextSmtp ==
    \/ \E s \in Sessions : OnConnect(s)
    \/ \E s \in Sessions, authEnabled \in SettingValues : OnConnectAuthEnabled(s, authEnabled)
    \/ \E s \in Sessions, smtpServerProxy \in SettingValues : OnConnectProxy(s, smtpServerProxy)
    \/ \E s \in Sessions : OnConnectFail(s)
    \/ \E s \in Ready : \E in \in AuthInputs :
            OnAuth(s, in[1], in[2], in[3], in[4][1], in[4][2])
    \/ \E s \in Ready : \E in \in SubmitInputs :
            OnData(s, in[1], in[2][1], in[2][2], in[3])
    \/ \E s \in Ready, stage \in StreamStages : OnDataError(s, stage)

\* the server, with no call of the bridge outstanding
InitSmtp == RpcInit /\ SmtpInit /\ EENGINE_TIMEOUT = DEFAULT_EENGINE_TIMEOUT

SpecSmtp == InitSmtp /\ [][NextSmtp]_vars

\* one connection whose external operations succeed, submitting messages with
\* up to MaxHeaders header lines
NextPipeline ==
    \/ OnConnect(1)
    \/ \E authEnabled \in SettingValues : OnConnectAuthEnabled(1, authEnabled)
    \/ OnConnectProxy(1, "false")
    \/ OnAuth(1, "a1", "secret", "secret", "ok", "data")
    \/ \E msg \in Messages : OnData(1, msg, "ok", "data", "ok")

InitPipeline == InitSmtp /\ useProxy = "false"

SpecPipeline == InitPipeline /\ [][NextPipeline]_vars

\* a connection accepted after the setup of connection 1 has completed
OnConnectLater == session[1].pc = "ready" /\ OnConnect(2)

\* connection 2 starts after the setup of connection 1 has completed
NextLater ==
    \/ OnConnect(1)
    \/ \E authEnabled \in SettingValues : OnConnectAuthEnabled(1, authEnabled)
    \/ \E smtpServerProxy \in SettingValues : OnConnectProxy(1, smtpServerProxy)
    \/ OnConnectFail(1)
    \/ OnConnectLater
    \/ \E authEnabled \in SettingValues : OnConnectAuthEnabled(2, authEnabled)
    \/ \E smtpServerProxy \in SettingValues : OnConnectProxy(2, smtpServerProxy)
    \/ OnConnectFail(2)
    \/ \E s \in Ready : \E in \in AuthInputs :
            OnAuth(s, in[1], in[2], in[3], in[4][1], in[4][2])
    \/ \E s \in Ready : \E in \in SubmitInputs :
            OnData(s, in[1], in[2][1], in[2][2], in[3])

SpecLater == InitSmtp /\ [][NextLater]_vars

\* the worker from its start: init(), and the setup of the connections the
\* listening server accepts
BootInit ==
    /\ RpcInit
    /\ EENGINE_TIMEOUT = DEFAULT_EENGINE_TIMEOUT
    /\ disabledCommands = <<>>
    /\ useProxy = "unset"
    /\ session = [s \in Sessions |-> [pc |-> "new", eeAuthEnabled |-> "unset",
                                      user |-> Undefined]]
    /\ ACCOUNT_CACHE = [s \in Sessions |-> NoHandle]
    /\ authResult = NoAuthResult
    /\ lastSubmit = NoSubmit
    /\ streamFailure = NoStreamFailure
    /\ server = Booting

ListenOutcomes == {"ok", "error"}

NextInit ==
    \/ \E smtpServerProxy \in SettingValues : InitServer(smtpServerProxy)
    \/ InitAddress
    \/ InitSettingsFail
    \/ \E outcome \in ListenOutcomes : Listen(outcome)
    \/ EmitListening
    \/ EmitFailed
    \/ Exit
    \/ ServerError
    \/ \E s \in Sessions : OnConnect(s)
    \/ \E s \in Sessions, authEnabled \in SettingValues : OnConnectAuthEnabled(s, authEnabled)
    \/ \E s \in Sessions, smtpServerProxy \in SettingValues : OnConnectProxy(s, smtpServerProxy)
    \/ \E s \in Sessions : OnConnectFail(s)

\* the continuation of a settled await and the callback handed to
\* setImmediate are run by the event loop
SpecInit ==
    BootInit /\ [][NextInit]_vars /\ WF_vars(EmitListening) /\ WF_vars(EmitFailed)
        /\ WF_vars(Exit)

(***************************************************************************)
(* Properties of the bridge                                                *)
(***************************************************************************)
Calls == DOMAIN promise

\* the step handles the response `message` for the call c
SettledBy(c, message) ==
    /\ message.cmd = "resp"
    /\ message.mid = callMid[c]
    /\ OnMessage(message)
    /\ promise'[c] # promise[c] =>
          IF TruthyStr(message.error)
          THEN promise'[c].state = "rejected" /\ promise'[c].message = message.error
          ELSE promise'[c].state = "resolved" /\ promise'[c].value = message.response

\* C1: a call is settled, or its callbacks and timer touched, only by its own
\* timer or by a response bearing its own mid, and then it resolves with the
\* payload of that response or rejects with the error of that response; a
\* response for another mid leaves the call as it is.
C1_OwnResponseOnly ==
    [][\A c \in Calls :
          (promise'[c] # promise[c] \/ invoked'[c] # invoked[c] \/ timer'[c] # timer[c])
              => \/ TimerFire(c)
                 \/ \E message \in InMessages : SettledBy(c, message)]_vars

\* two calls answered each by its own response, one resolved, one rejected
C1_Witness ==
    /\ mids >= 2
    /\ promise[1].state = "rejected" /\ promise[1].message = "E1"
    /\ promise[2].state = "resolved" /\ promise[2].value = "p2"
    /\ timer[1] = "cleared" /\ timer[2] = "cleared"

\* the call issued by this step
IssuedCall(c) == c \notin DOMAIN timer /\ c \in DOMAIN timer'

TimedOut(p) ==
    /\ p.state = "rejected"
    /\ p.code = "Timeout"
    /\ p.statusCode = 504

TimeoutRejects ==
    \A c \in Calls :
        /\ (timer[c] = "armed" /\ timer'[c] = "fired") => TimedOut(promise'[c])
        /\ TimedOut(promise[c]) => promise'[c] = promise[c]

\* C2 as stated: a timer that fires before a response rejects the call with
\* code 'Timeout' and statusCode 504 for good, and the timer is armed with
\* message.timeout whenever the message has one, otherwise with the default.
C2_TimeoutOverrideWhenGiven ==
    [][/\ TimeoutRejects
       /\ \A c \in 1..MaxCalls :
            IssuedCall(c) =>
                timerDelay'[c] = IF posted'[1].timeout # UndefinedNum
                                 THEN posted'[1].timeout
                                 ELSE EENGINE_TIMEOUT]_vars

\* C2 amended: as above, but the timer is armed with message.timeout only when
\* the message has one that is not zero; a timeout of 0 arms the default.
C2_TimeoutOverrideWhenNonZero ==
    [][/\ TimeoutRejects
       /\ \A c \in 1..MaxCalls :
            IssuedCall(c) =>
                timerDelay'[c] = IF posted'[1].timeout \notin {UndefinedNum, 0}
                                 THEN posted'[1].timeout
                                 ELSE EENGINE_TIMEOUT]_vars

\* a call with an override whose timer fired and whose late response was
\* handled afterwards: it stays rejected with the timeout error
C2_Witness ==
    \E c \in Calls :
        /\ timer[c] = "fired"
        /\ timerDelay[c] = 300
        /\ invoked[c].resolve = 1
        /\ TimedOut(promise[c])

\* C3: of the resolve and reject callbacks of a call at most one is ever
\* invoked, and at most once.
C3_AtMostOneCallback ==
    \A c \in Calls : invoked[c].resolve + invoked[c].reject <= 1

\* C4: the pending-call table holds exactly the calls that were issued and
\* have neither been answered nor timed out.
C4_QueueIsOutstandingCalls ==
    DOMAIN callQueue = {callMid[c] : c \in {d \in Calls : timer[d] = "armed"}}

(***************************************************************************)
(* Properties of the submission handler                                    *)
(***************************************************************************)
\* the last step was the onData of a submission
Submitted == lastSubmit.sid # 0

Rejected451(message) ==
    /\ ~lastSubmit.accepted
    /\ lastSubmit.responseCode = 451
    /\ lastSubmit.message = message
    /\ lastSubmit.via = NoHandle

\* C5: a message larger than MAX_SIZE is rejected with responseCode 552 and
\* neither checkAccountData nor queueMessage is invoked for it.
C5_OversizeRejected ==
    (Submitted /\ lastSubmit.msg.size > MAX_SIZE)
        => /\ ~lastSubmit.accepted
           /\ lastSubmit.responseCode = 552
           /\ ~lastSubmit.checked
           /\ lastSubmit.via = NoHandle

\* C6: with authentication not required and a routing directive whose account
\* load fails or returns nothing, the submission is rejected with 451 'Failed
\* to load account' and queueMessage is not invoked.
C6_FailedLoadRejected ==
    (/\ Submitted
     /\ session[lastSubmit.sid].eeAuthEnabled = "false"
     /\ lastSubmit.requestedAccount # Undefined
     /\ lastSubmit.loaded \in {"nodata", "notfound", "error"})
        => Rejected451("Failed to load account")

\* C7: with authentication not required, no routing directive and no handle
\* cached on the session, the submission is rejected with 451 'Sender account
\* ID not provided' and nothing is queued.
C7_NoSenderAccount ==
    (/\ Submitted
     /\ session[lastSubmit.sid].eeAuthEnabled = "false"
     /\ lastSubmit.requestedAccount = Undefined
     /\ ACCOUNT_CACHE[lastSubmit.sid] = NoHandle)
        => /\ Rejected451("Sender account ID not provided, can not send mail")
           /\ posted = <<>>

\* a submission without directive on a fresh session that requires no login
C7_Witness ==
    /\ Submitted
    /\ session[lastSubmit.sid].eeAuthEnabled = "false"
    /\ lastSubmit.msg.headers = <<<<"Subject", "a1">>>>
    /\ ACCOUNT_CACHE[lastSubmit.sid] = NoHandle
    /\ lastSubmit.responseCode = 451

\* C8: with authentication not required, a submission with routing directive
\* A whose account load succeeds is queued through a handle for account A
\* that is not the handle cached before, and that handle becomes the cached
\* handle of the session.
C8_DirectiveSelectsAccount ==
    [][\A s \in Sessions :
          (/\ lastSubmit'.sid = s
           /\ session[s].eeAuthEnabled = "false"
           /\ lastSubmit'.requestedAccount # Undefined
           /\ lastSubmit'.loaded = "data")
              => /\ lastSubmit'.via # NoHandle
                 /\ lastSubmit'.via.account = lastSubmit'.requestedAccount
                 /\ lastSubmit'.via.loaded = "data"
                 /\ lastSubmit'.via # ACCOUNT_CACHE[s]
                 /\ ACCOUNT_CACHE'[s] = lastSubmit'.via]_vars

\* a session with a cached handle for a1 whose next message names a2 and is
\* accepted through the new handle for a2
C8_Witness ==
    /\ Submitted
    /\ session[lastSubmit.sid].eeAuthEnabled = "false"
    /\ lastSubmit.msg.headers = <<<<"X-EE-Account", " a2 ">>>>
    /\ lastSubmit.accepted
    /\ lastSubmit.via.account = "a2"
    /\ ACCOUNT_CACHE[lastSubmit.sid] = lastSubmit.via
    /\ \E t \in Sessions : t # lastSubmit.sid /\ ACCOUNT_CACHE[t].account = "a1"

IsDirective(line) == NormalizeKey(line[1]) = "x-ee-account"

\* C9: the raw message handed to queueMessage has no x-ee-account line in
\* its header block, however often the header occurred and whether or not the
\* session requires authentication; the other header lines and the body are
\* the submitted ones, in their order.
C9_DirectiveStripped ==
    (Submitted /\ lastSubmit.via # NoHandle)
        => /\ \A i \in DOMAIN lastSubmit.raw.headers : ~IsDirective(lastSubmit.raw.headers[i])
           /\ lastSubmit.raw.headers = SelectSeq(lastSubmit.msg.headers, LAMBDA l : ~IsDirective(l))
           /\ lastSubmit.raw.body = lastSubmit.msg.body

\* a queued message that carried the header twice, in two spellings
C9_Witness ==
    /\ Submitted
    /\ lastSubmit.accepted
    /\ Len(lastSubmit.msg.headers) = 2
    /\ lastSubmit.msg.headers[1][1] = "X-EE-Account"
    /\ lastSubmit.msg.headers[2][1] = "x-ee-account"
    /\ lastSubmit.raw.headers = <<>>

\* C10: on a session stamped authentication-required a submission leaves the
\* cached handle as it is and is queued only through the handle cached by the
\* successful login of that session, whatever directive the message carries;
\* without a login it is rejected with 451 and nothing is queued; the cached
\* handle of such a session is set only by a successful login on it.
C10_AuthSessionUsesLogin ==
    [][\A s \in Sessions :
          session[s].eeAuthEnabled = "true" =>
              /\ lastSubmit'.sid = s =>
                    /\ ACCOUNT_CACHE'[s] = ACCOUNT_CACHE[s]
                    /\ lastSubmit'.via \in {NoHandle, ACCOUNT_CACHE[s]}
                    /\ lastSubmit'.via # NoHandle =>
                          /\ session[s].user # Undefined
                          /\ lastSubmit'.via.account = session[s].user
                    /\ session[s].user = Undefined =>
                          /\ ~lastSubmit'.accepted
                          /\ lastSubmit'.responseCode = 451
                          /\ lastSubmit'.via = NoHandle
              /\ ACCOUNT_CACHE'[s] # ACCOUNT_CACHE[s] =>
                    /\ authResult'.sid = s
                    /\ authResult'.ok
                    /\ ACCOUNT_CACHE'[s].account = session'[s].user]_vars

\* an authenticated session (login a1) whose message names a2 and is queued
\* through the handle of the login
C10_Witness ==
    /\ Submitted
    /\ session[lastSubmit.sid].eeAuthEnabled = "true"
    /\ session[lastSubmit.sid].user = "a1"
    /\ lastSubmit.requestedAccount = "a2"
    /\ lastSubmit.accepted
    /\ lastSubmit.via.account = "a1"

\* an unauthenticated submission on a session stamped authentication-required
C10_WitnessRejected ==
    /\ Submitted
    /\ session[lastSubmit.sid].eeAuthEnabled = "true"
    /\ session[lastSubmit.sid].user = Undefined
    /\ lastSubmit.responseCode = 451

\* C11: a handle cached on a session is the handle every later submission of
\* that session is queued through, unless the session requires no login and the
\* message names an account; no two sessions hold the same handle; a cached
\* handle is replaced only by the handle of a named account whose load
\* returned data.
C11_CachedHandleSticks ==
    [][\A s \in Sessions :
          /\ (/\ ACCOUNT_CACHE[s] # NoHandle
              /\ lastSubmit'.sid = s
              /\ ~(session[s].eeAuthEnabled = "false"
                   /\ lastSubmit'.requestedAccount # Undefined))
                 => /\ lastSubmit'.via = ACCOUNT_CACHE[s]
                    /\ ACCOUNT_CACHE'[s] = ACCOUNT_CACHE[s]
          /\ (ACCOUNT_CACHE[s] # NoHandle /\ ACCOUNT_CACHE'[s] # ACCOUNT_CACHE[s])
                 => /\ lastSubmit'.sid = s
                    /\ session[s].eeAuthEnabled = "false"
                    /\ lastSubmit'.requestedAccount # Undefined
                    /\ lastSubmit'.loaded = "data"
                    /\ ACCOUNT_CACHE'[s] = lastSubmit'.via
                    /\ ACCOUNT_CACHE'[s].account = lastSubmit'.requestedAccount
                    /\ ACCOUNT_CACHE'[s].loaded = "data"
          /\ \A t \in Sessions \ {s} :
                 ACCOUNT_CACHE'[s] # NoHandle => ACCOUNT_CACHE'[s].oid # ACCOUNT_CACHE'[t].oid]_vars

\* a session that cached the handle of a named account a1 and whose later
\* message names no account is queued through that handle, while the other
\* session holds a handle of its own
C11_Witness ==
    /\ Submitted
    /\ session[lastSubmit.sid].eeAuthEnabled = "false"
    /\ lastSubmit.requestedAccount = Undefined
    /\ lastSubmit.via # NoHandle
    /\ lastSubmit.via = ACCOUNT_CACHE[lastSubmit.sid]
    /\ lastSubmit.via.account = "a1"
    /\ \E t \in Sessions : t # lastSubmit.sid /\ ACCOUNT_CACHE[t] # NoHandle

\* how often x occurs in list
Occurrences(list, x) == Cardinality({i \in DOMAIN list : list[i] = x})

\* C12: whatever connections have been set up and in whatever order their
\* steps ran, the disabled commands hold 'AUTH' at most once and 'STARTTLS'
\* exactly once; right after the reconcile step of a connection 'AUTH' is
\* disabled exactly when that connection read authentication as not required.
C12_DisabledCommandsReconciled ==
    [][/\ Occurrences(disabledCommands, "STARTTLS") = 1
       /\ Occurrences(disabledCommands, "AUTH") <= 1
       /\ Occurrences(disabledCommands', "STARTTLS") = 1
       /\ Occurrences(disabledCommands', "AUTH") <= 1
       /\ \A s \in Sessions :
             (session[s].pc = "getAuth" /\ session'[s].pc = "getProxy")
                 => (Includes(disabledCommands', "AUTH")
                        <=> session'[s].eeAuthEnabled = "false")]_vars

\* two connections read authentication as not required one after the other,
\* and 'AUTH' is disabled once
C12_Witness ==
    /\ \A s \in Sessions : session[s].eeAuthEnabled = "false"
    /\ disabledCommands = <<"STARTTLS", "AUTH">>

\* a connection that read authentication as required after another one had
\* disabled 'AUTH'
C12_WitnessEnabledAgain ==
    /\ session[1].eeAuthEnabled = "false"
    /\ session[2].eeAuthEnabled = "true"
    /\ session[1].pc = "ready"
    /\ session[2].pc = "getProxy"
    /\ disabledCommands = <<"STARTTLS">>

\* what a connection operates under: its stamp, whether the protocol engine
\* accepts AUTH, and the proxy flag
Policy(s) ==
    <<session[s].eeAuthEnabled, ~Includes(disabledCommands, "AUTH"), useProxy>>

\* C13: once the setup of connection 1 has completed, no step changes the
\* policy it operates under, in particular not the settings refresh of
\* connection 2, which starts later and may read other values.
C13_PolicyUnchangedByLaterConnection ==
    [][session[1].pc = "ready" => Policy(1)' = Policy(1)]_vars

\* C14: every submission ends with exactly one invocation of the callback of
\* onData, also when the inbound stream or a stage of the pipeline emits
\* 'error': the handler then sees one failure and rejects the message once.
C14_ExactlyOneCallback ==
    /\ Submitted => (lastSubmit.accepted \/ lastSubmit.message # Undefined)
    /\ streamFailure.sid # 0 => (streamFailure.callbacks = 1 /\ ~streamFailure.uncaught)

\* C15: every outcome of a submission posts exactly one metrics event: an
\* accepted message smtpSubmitQueued, a rejected one (oversize, no account
\* resolved, queueing failed) smtpSubmitFail, and never the other event.
C15_OneMetricsEventPerOutcome ==
    Submitted =>
        posted = <<PostMetrics(IF lastSubmit.accepted THEN "smtpSubmitQueued"
                                                      ELSE "smtpSubmitFail")>>

\* C16: handling an inbound 'call' that bears a mid posts exactly one 'resp'
\* with that mid and a void response, and touches no pending call; handling an
\* inbound 'resp' whose mid is not in the pending-call table posts nothing and
\* changes nothing.
C16_CallAnsweredOnce ==
    [][\A message \in InMessages :
          OnMessage(message) =>
              /\ (message.cmd = "call" /\ message.mid # NoMid)
                    => /\ Len(posted') = 1
                       /\ posted'[1].cmd = "resp"
                       /\ posted'[1].mid = message.mid
                       /\ posted'[1].response = Undefined
                       /\ UNCHANGED <<callQueue, timer, promise, invoked>>
              /\ (message.cmd = "resp" /\ message.mid \notin DOMAIN callQueue)
                    => /\ posted' = <<>>
                       /\ UNCHANGED <<EENGINE_TIMEOUT, now, mids, callQueue, callMid,
                                      timerDelay, timer, promise, invoked, smtpVars>>]_vars

\* a call of the parent answered under its mid while a call of the worker
\* registered under the same mid is still pending
C16_Witness ==
    /\ Len(posted) = 1
    /\ posted[1].cmd = "resp"
    /\ posted[1].mid \in DOMAIN callQueue
    /\ promise[QueueGet(callQueue, posted[1].mid)].state = "pending"

\* C17: a response received for a pending call rejects the call exactly when
\* it carries an error payload, and the rejection then has the message, the
\* code and the statusCode of the payload, also when they are empty or zero.
C17_ErrorRoundTrip ==
    [][\A c \in Calls : \A message \in InMessages :
          (/\ message.cmd = "resp"
           /\ message.mid = callMid[c]
           /\ message.mid \in DOMAIN callQueue
           /\ promise[c].state = "pending"
           /\ OnMessage(message))
              => /\ promise'[c].state = "rejected" <=> message.error # Undefined
                 /\ message.error # Undefined
                       => /\ promise'[c].message = message.error
                          /\ promise'[c].code = message.code
                          /\ promise'[c].statusCode = message.statusCode]_vars

\* the login of the last step ran on a session stamped authentication-required
LoginTried == authResult.sid # 0 /\ session[authResult.sid].eeAuthEnabled = "true"

\* C18: a login with a wrong password and a login with the right password for
\* an account whose load reports not-found fail alike: 'Failed to authenticate
\* user', no status code, no user, no handle cached; the status code 454 is on
\* the failure exactly when the load threw another error.
C18_GenericAuthFailure ==
    LoginTried =>
        /\ (~authResult.matched \/ authResult.loaded = "notfound")
              => /\ ~authResult.ok
                 /\ authResult.message = "Failed to authenticate user"
                 /\ authResult.statusCode = UndefinedNum
                 /\ authResult.user = Undefined
                 /\ session[authResult.sid].user = Undefined
                 /\ ACCOUNT_CACHE[authResult.sid] = NoHandle
        /\ authResult.statusCode # UndefinedNum
              <=> (authResult.matched /\ authResult.loaded = "error")
        /\ authResult.statusCode \in {UndefinedNum, 454}
        /\ authResult.loaded = "error"
              => (~authResult.ok /\ authResult.message = "Failed to authenticate user")

\* a login with the right password for an account that does not exist
C18_Witness ==
    /\ LoginTried
    /\ authResult.matched
    /\ authResult.loaded = "notfound"
    /\ authResult.message = "Failed to authenticate user"

\* a login with a wrong password
C18_WitnessWrongPassword ==
    /\ LoginTried
    /\ ~authResult.matched
    /\ authResult.message = "Failed to authenticate user"

\* a login whose load threw an error other than not-found
C18_WitnessUnavailable ==
    /\ LoginTried
    /\ authResult.loaded = "error"
    /\ authResult.statusCode = 454

\* C20: a login succeeds, names the user of the session and caches a handle
\* only on a session stamped authentication-required at its own setup, with
\* the configured password and a load that returned data; a session stamped
\* not-required never gets a user, and a login on it is refused as 'not
\* enabled' also after a later connection has enabled AUTH again.
C20_LoginOnlyWhenRequired ==
    [][/\ \A s \in Sessions :
             /\ (authResult'.sid = s /\ authResult'.ok)
                   => /\ session[s].eeAuthEnabled = "true"
                      /\ authResult'.matched
                      /\ authResult'.loaded = "data"
                      /\ session'[s].user = authResult'.user
                      /\ ACCOUNT_CACHE'[s].account = authResult'.user
                      /\ ACCOUNT_CACHE'[s].loaded = "data"
             /\ (authResult'.sid = s /\ ~authResult'.ok)
                   => /\ ACCOUNT_CACHE'[s] = ACCOUNT_CACHE[s]
                      /\ session'[s].user = Undefined
             /\ session'[s].user # Undefined
                   => /\ session'[s].eeAuthEnabled = "true"
                      /\ ACCOUNT_CACHE'[s].account = session'[s].user
             /\ session'[s].user # session[s].user
                   => (authResult'.sid = s /\ authResult'.ok)
             /\ (authResult'.sid = s /\ session[s].eeAuthEnabled = "false")
                   => /\ ~authResult'.ok
                      /\ authResult'.message = "Authentication not enabled"]_vars

\* a login with the configured password for an existing account on a session
\* stamped not-required, refused while AUTH is enabled again by the setup of the
\* other connection
C20_Witness ==
    /\ authResult.sid # 0
    /\ session[authResult.sid].eeAuthEnabled = "false"
    /\ \E t \in Sessions : session[t].eeAuthEnabled = "true"
    /\ ~Includes(disabledCommands, "AUTH")
    /\ authResult.matched
    /\ ~authResult.ok
    /\ authResult.message = "Authentication not enabled"
    /\ session[authResult.sid].user = Undefined

\* a successful login
C20_WitnessLogin ==
    /\ authResult.sid # 0
    /\ authResult.ok
    /\ session[authResult.sid].user = "a2"
    /\ ACCOUNT_CACHE[authResult.sid].account = "a2"

StateChanges == server.notifications

\* what holds of the notifications in every state
C19_Notifications ==
    /\ Occurrences(StateChanges, "failed") <= 1
    /\ Occurrences(StateChanges, "listening") <= 1
    /\ Includes(StateChanges, "failed") => server.listen = "error"
    /\ Includes(StateChanges, "listening") => server.listen = "ok"
    /\ server.listen = "error"
          => /\ ~Includes(StateChanges, "listening")
             /\ server.pc \in {"catch", "rejected", "exited"}
             /\ server.pc # "catch" => StateChanges = <<"failed">>
             /\ \A s \in Sessions : session[s].pc = "new"
    /\ server.pc = "listening" => StateChanges = <<"listening">>
    /\ server.pc = "exited" => server.exitCode = 3

\* C19: when listen fails during init(), exactly one 'failed' notification is
\* emitted, never a 'listening' one, and the process then exits; 'failed' is
\* emitted only when listen failed, and a listen that succeeded leads to
\* exactly one 'listening' notification.
C19_ListenFailureReportedOnce ==
    /\ []C19_Notifications
    /\ (server.listen = "error")
          ~> (server.pc = "exited" /\ StateChanges = <<"failed">>)
    /\ (server.listen = "ok") ~> (StateChanges = <<"listening">>)

\* the process exited after a failed listen
C19_Witness ==
    /\ server.listen = "error"
    /\ server.pc = "exited"
    /\ server.exitCode = 3
    /\ StateChanges = <<"failed">>

\* the listening server logged a later error and accepted connections
C19_WitnessListening ==
    /\ server.pc = "listening"
    /\ server.logged
    /\ StateChanges = <<"listening">>
    /\ \E s \in Sessions : session[s].pc = "ready"

====
